---- MODULE Spec2Model ----
(***************************************************************************)
(* Model of the SHL assessment recommender (main.py, app.py, evaluation.py,*)
(* generate_predictions.py): the retrieval -> filter -> rerank -> normalise*)
(* pipeline, the lazy vector-store initialisation and the catalog load.    *)
(*                                                                         *)
(* Python values are tagged records [t |-> <type>, v |-> <payload>]; a     *)
(* Python str is a sequence of one-character strings, so that strip,       *)
(* lower, title, int() and the digit search are computed, not assumed.     *)
(* A dict (document metadata, a catalog entry, an output record) is a      *)
(* function whose DOMAIN is its set of keys.                               *)
(***************************************************************************)
EXTENDS Integers, Sequences, FiniteSets, TLC

(***************************************************************************)
(* Characters and strings                                                  *)
(***************************************************************************)
LowerChars == << "a","b","c","d","e","f","g","h","i","j","k","l","m",
                 "n","o","p","q","r","s","t","u","v","w","x","y","z" >>
UpperChars == << "A","B","C","D","E","F","G","H","I","J","K","L","M",
                 "N","O","P","Q","R","S","T","U","V","W","X","Y","Z" >>
DigitChars == << "0","1","2","3","4","5","6","7","8","9" >>

IndexOf(c, seq) ==
    IF \E i \in 1..Len(seq) : seq[i] = c
    THEN CHOOSE i \in 1..Len(seq) : seq[i] = c
    ELSE 0

IsDigit(c) == IndexOf(c, DigitChars) # 0
IsUpper(c) == IndexOf(c, UpperChars) # 0
IsLower(c) == IndexOf(c, LowerChars) # 0
IsLetter(c) == IsUpper(c) \/ IsLower(c)
IsSpace(c) == c \in {" ", "\t", "\n"}

LowerChar(c) == IF IsUpper(c) THEN LowerChars[IndexOf(c, UpperChars)] ELSE c
UpperChar(c) == IF IsLower(c) THEN UpperChars[IndexOf(c, LowerChars)] ELSE c

\* str.lower()
StrLower(s) == [i \in 1..Len(s) |-> LowerChar(s[i])]

\* str.title(): a letter that follows a non-letter (or starts the string) is
\* upper-cased, every other letter is lower-cased.
StrTitle(s) ==
    [i \in 1..Len(s) |->
        IF i = 1 \/ ~IsLetter(s[i - 1]) THEN UpperChar(s[i]) ELSE LowerChar(s[i])]

\* str.strip(): leading and trailing whitespace removed.
StrStrip(s) ==
    LET keep == {i \in 1..Len(s) : ~IsSpace(s[i])}
    IN  IF keep = {} THEN << >>
        ELSE LET lo == CHOOSE i \in keep : \A j \in keep : i <= j
                 hi == CHOOSE i \in keep : \A j \in keep : j <= i
             IN  SubSeq(s, lo, hi)

\* str.rstrip("/")
RECURSIVE StrRStripSlash(_)
StrRStripSlash(s) ==
    IF s # << >> /\ s[Len(s)] = "/" THEN StrRStripSlash(SubSeq(s, 1, Len(s) - 1)) ELSE s

\* The number written by a sequence of decimal digits.
RECURSIVE DigitsValue(_)
DigitsValue(s) ==
    IF s = << >> THEN 0
    ELSE 10 * DigitsValue(SubSeq(s, 1, Len(s) - 1)) + (IndexOf(s[Len(s)], DigitChars) - 1)

\* The decimal digits of a natural number.
RECURSIVE NatDigits(_)
NatDigits(n) ==
    IF n < 10 THEN << DigitChars[n + 1] >>
    ELSE NatDigits(n \div 10) \o << DigitChars[(n % 10) + 1] >>

IntDigits(n) == IF n < 0 THEN << "-" >> \o NatDigits(0 - n) ELSE NatDigits(n)

(***************************************************************************)
(* Python values                                                           *)
(***************************************************************************)
PyNone == [t |-> "none", v |-> 0]
PyInt(n) == [t |-> "int", v |-> n]
PyBool(b) == [t |-> "bool", v |-> b]
\* a float with one decimal place, held in tenths: PyFloat(25) is 2.5
PyFloat(tenths) == [t |-> "float", v |-> tenths]
PyStr(s) == [t |-> "str", v |-> s]
PyList(l) == [t |-> "list", v |-> l]
PyDict(d) == [t |-> "dict", v |-> d]
\* a response text that json.loads rejects
NotJson == [t |-> "notjson", v |-> 0]

\* Truncation toward zero, as int(float) does (\div floors).
TruncDiv(a, b) == IF a >= 0 THEN a \div b ELSE 0 - ((0 - a) \div b)

\* bool(x): the truth value the `not x` tests read.
Truthy(x) ==
    CASE x.t = "none"  -> FALSE
      [] x.t = "bool"  -> x.v
      [] x.t = "int"   -> x.v # 0
      [] x.t = "float" -> x.v # 0
      [] x.t = "str"   -> x.v # << >>
      [] x.t = "list"  -> x.v # << >>
      [] x.t = "dict"  -> DOMAIN x.v # {}

\* isinstance(x, int): bool is a subclass of int.
IsInstanceInt(x) == x.t \in {"int", "bool"}

\* str(x) for the scalar values the catalog fields hold.
Str(x) ==
    CASE x.t = "str"   -> x.v
      [] x.t = "int"   -> IntDigits(x.v)
      [] x.t = "bool"  -> IF x.v THEN << "T","r","u","e" >> ELSE << "F","a","l","s","e" >>
      [] x.t = "none"  -> << "N","o","n","e" >>
      [] x.t = "float" ->
            (IF x.v < 0 THEN << "-" >> ELSE << >>)
            \o NatDigits((IF x.v < 0 THEN 0 - x.v ELSE x.v) \div 10)
            \o << "." >>
            \o NatDigits((IF x.v < 0 THEN 0 - x.v ELSE x.v) % 10)

\* The outcome of int(x): [ok |-> TRUE, v |-> n], or ok = FALSE when int()
\* raises (TypeError for None, list, dict; ValueError for a str that is not
\* an optionally signed run of digits once stripped).
IntFail == [ok |-> FALSE, v |-> 0]
IntOk(n) == [ok |-> TRUE, v |-> n]
IntOfStr(s) ==
    LET u == StrStrip(s)
        signed == u # << >> /\ u[1] \in {"+", "-"}
        body == IF signed THEN Tail(u) ELSE u
    IN  IF body # << >> /\ \A i \in 1..Len(body) : IsDigit(body[i])
        THEN IntOk(IF signed /\ u[1] = "-" THEN 0 - DigitsValue(body) ELSE DigitsValue(body))
        ELSE IntFail
IntCoerce(x) ==
    CASE x.t = "int"   -> IntOk(x.v)
      [] x.t = "bool"  -> IntOk(IF x.v THEN 1 ELSE 0)
      [] x.t = "float" -> IntOk(TruncDiv(x.v, 10))
      [] x.t = "str"   -> IntOfStr(x.v)
      [] OTHER         -> IntFail

\* dict.get(key, default)
Get(d, key, default) == IF key \in DOMAIN d THEN d[key] ELSE default

(***************************************************************************)
(* Field normaliser (main.py)                                              *)
(***************************************************************************)
\* re.search(r"(\d+)", s): the leftmost, longest run of digits, or << >>.
FirstDigitRun(s) ==
    LET ds == {i \in 1..Len(s) : IsDigit(s[i])}
    IN  IF ds = {} THEN << >>
        ELSE LET lo == CHOOSE i \in ds : \A j \in ds : i <= j
                 ends == {h \in lo..Len(s) : \A j \in lo..h : IsDigit(s[j])}
                 hi == CHOOSE h \in ends : \A j \in ends : j <= h
             IN  SubSeq(s, lo, hi)

parse_duration_minutes(duration_field) ==
    IF ~Truthy(duration_field) THEN PyInt(0)
    ELSE IF IsInstanceInt(duration_field) THEN duration_field
    ELSE LET m == FirstDigitRun(Str(duration_field))
         IN  IF m # << >> THEN PyInt(DigitsValue(m)) ELSE PyInt(0)

YesWords == { << "y","e","s" >>, << "y" >>, << "t","r","u","e" >>, << "1" >> }

normalize_yes_no(val) ==
    IF ~Truthy(val) THEN "No"
    ELSE IF StrLower(StrStrip(Str(val))) \in YesWords THEN "Yes"
    ELSE "No"

\* reverse_map.get(key): the code, or "" for None.
reverse_map(key) ==
    CASE key = << "A","b","i","l","i","t","y" >>                     -> "A"
      [] key = << "B","e","h","a","v","i","o","r","a","l" >>         -> "B"
      [] key = << "C","o","g","n","i","t","i","v","e" >>             -> "C"
      [] key = << "K","n","o","w","l","e","d","g","e" >>             -> "K"
      [] key = << "P","e","r","s","o","n","a","l","i","t","y" >>     -> "P"
      [] key = << "S","i","t","u","a","t","i","o","n","a","l" >>     -> "S"
      [] key = << "A" >> -> "A"
      [] key = << "B" >> -> "B"
      [] key = << "C" >> -> "C"
      [] key = << "K" >> -> "K"
      [] key = << "P" >> -> "P"
      [] key = << "S" >> -> "S"
      [] OTHER -> ""

\* `for t in types`: the elements of a list, the characters of a str.
Iterate(x) ==
    IF x.t = "str" THEN [i \in 1..Len(x.v) |-> PyStr(<< x.v[i] >>)] ELSE x.v

InSeq(x, seq) == \E i \in 1..Len(seq) : seq[i] = x

\* Mutant: the title-cased lookup left out.
TypeCode_exact(t) == reverse_map(StrStrip(Str(t)))

\* The code one entry maps to: exact lookup, then the title-cased lookup.
TypeCode(t) ==
    LET t_str == StrStrip(Str(t))
        code == reverse_map(t_str)
    IN  IF code # "" THEN code ELSE reverse_map(StrTitle(t_str))

\* Mutant: the `code not in codes` test left out.
RECURSIVE MapTypesLoop_nodedup(_, _)
MapTypesLoop_nodedup(items, codes) ==
    IF items = << >> THEN codes
    ELSE LET code == TypeCode(Head(items))
         IN  MapTypesLoop_nodedup(Tail(items),
                 IF code # "" THEN Append(codes, code) ELSE codes)

RECURSIVE MapTypesLoop(_, _)
MapTypesLoop(items, codes) ==
    IF items = << >> THEN codes
    ELSE LET code == TypeCode(Head(items))
         IN  MapTypesLoop(Tail(items),
                 IF code # "" /\ ~InSeq(code, codes) THEN Append(codes, code) ELSE codes)

map_test_types_to_codes(types) ==
    IF ~Truthy(types) THEN << >> ELSE MapTypesLoop(Iterate(types), << >>)

(***************************************************************************)
(* Candidate filter and index resolution (main.py)                         *)
(***************************************************************************)
Individual == PyStr(<< "i","n","d" >>)
Package == PyStr(<< "p","k","g" >>)


IsIndividual(d) == Get(d, "solution_type", Individual) = Individual

\* Mutant: the solution_type test left out.
FilterDocs_all(docs) == docs

\* recommend_assessments: the filter with its fall back to the unfiltered list
FilterDocs(docs) ==
    LET filtered == SelectSeq(docs, IsIndividual)
    IN  IF filtered = << >> THEN docs ELSE filtered

\* Mutant: the fall back to the unfiltered list left out.
FilterDocsRaw_nofallback(docs) == SelectSeq(docs, IsIndividual)

\* recommend_assessments_raw: its own copy of the filter
FilterDocsRaw(docs) ==
    LET filtered == SelectSeq(docs, IsIndividual)
    IN  IF filtered = << >> THEN docs ELSE filtered

MaxAccepted == 10
MinFillThreshold == 5
MinFillTarget == 5
TruncateMax == 10
FallbackStop == 6
RawDefaultK == 10

Min(a, b) == IF a <= b THEN a ELSE b

\* list(range(a, b)) as Python ints
PyRange(a, b) == [i \in 1..(IF b > a THEN b - a ELSE 0) |-> PyInt(a + i - 1)]

\* Mutant: the default takes every candidate instead of the top five.
ParseIndices_all(resp, n) ==
    IF resp.t = "list" THEN resp.v ELSE PyRange(1, n + 1)

\* json.loads(response) with the isinstance check and the except branch
ParseIndices(resp, n) ==
    IF resp.t = "list" THEN resp.v ELSE PyRange(1, Min(FallbackStop, n + 1))

\* Mutant: the `i not in seen` test left out.
RECURSIVE NormalizeLoop_noseen(_, _, _)
NormalizeLoop_noseen(idxs, n, st) ==
    IF idxs = << >> THEN st
    ELSE LET c == IntCoerce(Head(idxs))
         IN  IF ~c.ok THEN NormalizeLoop_noseen(Tail(idxs), n, st)
             ELSE LET i == c.v
                      st2 == IF 1 <= i /\ i <= n
                             THEN [clean |-> Append(st.clean, i), seen |-> st.seen \cup {i}]
                             ELSE st
                  IN  IF Len(st2.clean) >= MaxAccepted THEN st2
                      ELSE NormalizeLoop_noseen(Tail(idxs), n, st2)

\* The normalisation loop; st = [clean |-> sequence, seen |-> set].
RECURSIVE NormalizeLoop(_, _, _)
NormalizeLoop(idxs, n, st) ==
    IF idxs = << >> THEN st
    ELSE LET c == IntCoerce(Head(idxs))
         IN  IF ~c.ok THEN NormalizeLoop(Tail(idxs), n, st)
             ELSE LET i == c.v
                      st2 == IF 1 <= i /\ i <= n /\ i \notin st.seen
                             THEN [clean |-> Append(st.clean, i), seen |-> st.seen \cup {i}]
                             ELSE st
                  IN  IF Len(st2.clean) >= MaxAccepted THEN st2
                      ELSE NormalizeLoop(Tail(idxs), n, st2)

\* The minimum-fill loop over range(1, n + 1), from position i.
RECURSIVE FillLoop(_, _, _)
FillLoop(i, n, st) ==
    IF i > n THEN st
    ELSE LET st2 == IF i \notin st.seen
                    THEN [clean |-> Append(st.clean, i), seen |-> st.seen \cup {i}]
                    ELSE st
         IN  IF Len(st2.clean) >= MinFillTarget THEN st2 ELSE FillLoop(i + 1, n, st2)

\* Mutant: the minimum fill left out.
FillMinimum_off(n, st) == st

FillMinimum(n, st) ==
    IF Len(st.clean) < MinFillThreshold THEN FillLoop(1, n, st) ELSE st

\* clean_indices as they stand after normalisation, fill and truncation
ResolveIndices(idxs, n) ==
    LET st == FillMinimum(n, NormalizeLoop(idxs, n, [clean |-> << >>, seen |-> {}]))
    IN  SubSeq(st.clean, 1, Min(TruncateMax, Len(st.clean)))

\* One output record, built from a candidate's metadata.
BuildRecord(m) ==
    [ name |-> Get(m, "name", PyStr(<< >>)),
      url |-> Get(m, "url", PyStr(<< >>)),
      description |-> Get(m, "description", PyStr(<< >>)),
      duration |-> parse_duration_minutes(Get(m, "duration", PyNone)),
      remote_support |->
          normalize_yes_no(Get(m, "remote_testing_support",
                               Get(m, "remote_support", PyStr(<< "N","o" >>)))),
      adaptive_support |->
          normalize_yes_no(Get(m, "adaptive_irt_support",
                               Get(m, "adaptive_support", PyStr(<< "N","o" >>)))),
      test_type |-> map_test_types_to_codes(Get(m, "test_types", PyList(<< >>))) ]

\* The records of the resolved indices, in order.
BuildRecommendations(clean, docs) ==
    LET ok == SelectSeq(clean, LAMBDA idx : 1 <= idx /\ idx <= Len(docs))
    IN  [j \in 1..Len(ok) |-> BuildRecord(docs[ok[j]])]

\* recommend_assessments_raw's return value
RawUrls(filtered, kk) ==
    [j \in 1..Min(kk, Len(filtered)) |->
        [url |-> StrLower(StrRStripSlash(Get(filtered[j], "url", PyStr(<< >>)).v))]]

(***************************************************************************)
(* State                                                                   *)
(***************************************************************************)
VARIABLES
    config,           \* which of QDRANT_URL, QDRANT_API_KEY, GROQ_API_KEY are set
    _retriever,       \* main._retriever: "None" or "set"
    _llm,             \* main._llm: "None" or "set"
    llmCalls,         \* how many times llm.ainvoke has been called
    retrieved_docs,   \* what retriever.ainvoke returns for the query at hand
    response,         \* what the language model answers for the query at hand
    recState,         \* recommend_assessments: "idle", "returned" or "raised"
    filtered_docs,    \* its filtered_docs
    indices,          \* its indices, as parsed or as defaulted
    clean_indices,    \* its clean_indices at the return
    recommendations,  \* its return value
    rawState,         \* recommend_assessments_raw: "idle", "returned" or "raised"
    rawK,             \* its argument k
    rawFiltered,      \* its filtered
    rawResult,        \* its return value
    file,             \* shl_assessments.json on disk: the list of entries
    file0,            \* the file as it was before the first load
    data,             \* main.data
    _updated,         \* main._updated
    loads,            \* how many times the module-level load has run
    lastWrote,        \* whether the latest load rewrote the file
    collection,       \* the Qdrant collection: [exists |-> BOOLEAN]
    bootstraps,       \* the from_documents calls of this process that wrote
    req,              \* the requests in flight, one coroutine each
    mt_types,         \* the argument of a map_test_types_to_codes call
    mt_codes,         \* its return value
    mt_done           \* whether the call has returned

pipeVars == << retrieved_docs, response, recState, filtered_docs, indices,
               clean_indices, recommendations, rawState, rawK, rawFiltered, rawResult >>
clientVars == << config, _retriever, _llm, llmCalls >>
loadVars == << file, file0, data, _updated, loads, lastWrote >>
serverVars == << collection, bootstraps, req >>
codeVars == << mt_types, mt_codes, mt_done >>

vars == << config, _retriever, _llm, llmCalls, retrieved_docs, response,
           recState, filtered_docs, indices, clean_indices, recommendations,
           rawState, rawK, rawFiltered, rawResult,
           file, file0, data, _updated, loads, lastWrote,
           collection, bootstraps, req, mt_types, mt_codes, mt_done >>

(***************************************************************************)
(* Inputs: candidate lists and language-model responses                    *)
(***************************************************************************)
MaxDocs == 12

EmptyDict == [x \in {} |-> PyNone]

\* url number u: 0 for a candidate without a url key
UrlPart(u) ==
    IF u = 0 THEN EmptyDict
    ELSE [url |-> PyStr(<< "U", "/" >> \o NatDigits(u) \o << "/" >>)]

SolTypes == {"ind", "pkg", "absent"}
SolPart(s) ==
    CASE s = "ind"    -> [solution_type |-> Individual]
      [] s = "pkg"    -> [solution_type |-> Package]
      [] s = "absent" -> EmptyDict

Shapes == 1..5
ShapePart(f) ==
    CASE f = 1 ->
           [ name |-> PyStr(<< "J","a","v","a" >>),
             description |-> PyStr(<< "d" >>),
             duration |-> PyStr(<< "4","9"," ","m","i","n" >>),
             remote_testing_support |-> PyStr(<< "Y","e","s" >>),
             adaptive_irt_support |-> PyStr(<< "N","o" >>),
             test_types |-> PyList(<< PyStr(<< "K","n","o","w","l","e","d","g","e" >>),
                                      PyStr(<< "A","b","i","l","i","t","y" >>),
                                      PyStr(<< "K","n","o","w","l","e","d","g","e" >>) >>) ]
      [] f = 2 -> EmptyDict
      [] f = 3 ->
           [ name |-> PyStr(<< "S","Q","L" >>),
             duration |-> PyInt(30),
             remote_support |-> PyStr(<< " ","T","R","U","E"," " >>),
             adaptive_irt_support |-> PyBool(TRUE),
             test_types |-> PyList(<< PyStr(<< " ","a","b","i","l","i","t","y" >>),
                                      PyStr(<< "x" >>),
                                      PyStr(<< "P" >>),
                                      PyStr(<< "p" >>),
                                      PyStr(<< "A","b","i","l","i","t","y"," ","&" >>) >>) ]
      [] f = 4 ->
           [ name |-> PyNone,
             description |-> PyStr(<< >>),
             duration |-> PyStr(<< "n","/","a" >>),
             remote_testing_support |-> PyStr(<< "n","o" >>),
             remote_support |-> PyStr(<< "y","e","s" >>),
             adaptive_support |-> PyStr(<< "y" >>),
             test_types |-> PyStr(<< "S","b","z" >>) ]
      [] f = 5 ->
           [ name |-> PyStr(<< "C","+","+" >>),
             description |-> PyStr(<< "d" >>),
             duration |-> PyFloat(305),
             remote_testing_support |-> PyBool(TRUE),
             adaptive_irt_support |-> PyInt(1),
             test_types |-> PyList(<< >>) ]

Doc(u, s, f) == UrlPart(u) @@ SolPart(s) @@ ShapePart(f)

\* Every list of at most two candidates over the small documents.
SmallDocs == {Doc(u, s, f) : u \in 0..2, s \in SolTypes, f \in Shapes}
ShortDocLists ==
    {<< >>} \cup {<< d >> : d \in SmallDocs}
            \cup {<< d, e >> : d \in SmallDocs, e \in {Doc(u, s, 1) : u \in 1..2, s \in SolTypes}}

\* Longer lists: candidate i of n, its url and solution type set by a pattern.
UrlPatterns == {"distinct", "pair", "same"}
SolPatterns == {"ind", "pkg", "absent", "mixed", "firstpkg"}
PatternDoc(i, up, sp) ==
    Doc(CASE up = "distinct" -> i
          [] up = "pair"     -> IF i = 2 THEN 1 ELSE i
          [] up = "same"     -> 1,
        CASE sp = "mixed"    -> IF i % 2 = 1 THEN "pkg" ELSE "ind"
          [] sp = "firstpkg" -> IF i = 1 THEN "pkg" ELSE "ind"
          [] OTHER           -> sp,
        ((i - 1) % 5) + 1)
PatternDocs(n, up, sp) == [i \in 1..n |-> PatternDoc(i, up, sp)]
LongDocLists == {PatternDocs(n, up, sp) : n \in 3..MaxDocs, up \in UrlPatterns, sp \in SolPatterns}

\* The entries a response array is drawn from.
Elems ==
    { PyInt(0), PyInt(3), PyInt(99), PyInt(-2),
      PyStr(<< " ","2" >>), PyStr(<< "x" >>), PyFloat(25), PyNone }
Prefixes == {<< >>} \cup {<< e >> : e \in Elems} \cup {<< e, g >> : e \in Elems, g \in Elems}
Runs == {PyRange(a, b) : a \in 1..2, b \in 1..(MaxDocs + 2)}
RichArrays == {PyList(p \o r) : p \in Prefixes, r \in Runs}

\* Responses that are no array: not JSON at all, or another JSON value.
NonArrays == { NotJson, PyDict([indices |-> PyList(<< PyInt(1) >>)]), PyInt(3),
               PyStr(<< "1",","," ","2" >>), PyNone }
FewArrays ==
    { PyList(<< >>),
      PyList(<< PyInt(3), PyInt(3), PyInt(99), PyInt(1) >>),
      PyList(<< PyInt(2), PyInt(1) >>),
      PyList(<< PyInt(1), PyInt(2) >>),
      PyList([i \in 1..(MaxDocs + 1) |-> PyInt(MaxDocs + 2 - i)]) }

Ks == {3, RawDefaultK}

AllSet == [QDRANT_URL |-> TRUE, QDRANT_API_KEY |-> TRUE, GROQ_API_KEY |-> TRUE]

\* The requests a server process handles.
MaxReqs == 2
Reqs == 1..MaxReqs
NoBody == [query |-> PyNone, job_description |-> PyNone]
NoHttp == [status |-> 0, detail |-> "none"]
NoReq == [pc |-> "off", body |-> NoBody, exc |-> "none", docs |-> << >>, recs |-> << >>,
          http |-> NoHttp]

\* A catalog already migrated, as a running process holds it.
LoadedCatalog == << Doc(1, "ind", 2), Doc(2, "pkg", 2) >>

PipelineIdle ==
    /\ recState = "idle"
    /\ filtered_docs = << >>
    /\ indices = << >>
    /\ clean_indices = << >>
    /\ recommendations = << >>
    /\ rawState = "idle"
    /\ rawK = 0
    /\ rawFiltered = << >>
    /\ rawResult = << >>

CodesIdle ==
    /\ mt_types = PyNone
    /\ mt_codes = << >>
    /\ mt_done = FALSE

CatalogLoaded ==
    /\ file = LoadedCatalog
    /\ file0 = LoadedCatalog
    /\ data = LoadedCatalog
    /\ _updated = FALSE
    /\ loads = 1
    /\ lastWrote = FALSE

(***************************************************************************)
(* The pipeline, called on a process whose retriever is initialised        *)
(***************************************************************************)
Init ==
    /\ config = AllSet
    /\ _retriever = "set"
    /\ _llm = "None"
    /\ llmCalls = 0
    /\ \/ /\ retrieved_docs \in ShortDocLists \cup LongDocLists
          /\ response \in NonArrays \cup FewArrays
       \/ /\ retrieved_docs \in {PatternDocs(n, "distinct", "ind") : n \in 0..MaxDocs}
          /\ response \in RichArrays
    /\ PipelineIdle
    /\ CatalogLoaded
    /\ CodesIdle
    /\ collection = [exists |-> TRUE]
    /\ bootstraps = << >>
    /\ req = [r \in Reqs |-> NoReq]

\* get_llm(): the cached client, or a new one, or RuntimeError without a key
GetLlmRaises == _llm = "None" /\ ~config.GROQ_API_KEY

RecommendAssessments ==
    /\ recState = "idle"
    /\ _retriever = "set"
    /\ LET filtered == FilterDocs(retrieved_docs)
           parsed == ParseIndices(response, Len(filtered))
           clean == ResolveIndices(parsed, Len(filtered))
       IN  IF GetLlmRaises
           THEN /\ recState' = "raised"
                /\ filtered_docs' = filtered
                /\ UNCHANGED << _llm, llmCalls, indices, clean_indices, recommendations >>
           ELSE /\ _llm' = "set"
                /\ llmCalls' = llmCalls + 1
                /\ filtered_docs' = filtered
                /\ indices' = parsed
                /\ clean_indices' = clean
                /\ recommendations' = BuildRecommendations(clean, filtered)
                /\ recState' = "returned"
    /\ UNCHANGED << config, _retriever, retrieved_docs, response,
                    rawState, rawK, rawFiltered, rawResult >>
    /\ UNCHANGED << loadVars, serverVars, codeVars >>

\* Mutant: the raw retrieval builds the client and asks the model as well.
RecommendAssessmentsRaw_llm ==
    /\ rawState = "idle"
    /\ _retriever = "set"
    /\ ~GetLlmRaises
    /\ \E kk \in Ks :
          LET filtered == FilterDocsRaw(retrieved_docs)
          IN  /\ rawK' = kk
              /\ rawFiltered' = filtered
              /\ rawResult' = RawUrls(filtered, kk)
              /\ rawState' = "returned"
    /\ _llm' = "set"
    /\ llmCalls' = llmCalls + 1
    /\ UNCHANGED << config, _retriever, retrieved_docs, response,
                    recState, filtered_docs, indices, clean_indices, recommendations >>
    /\ UNCHANGED << loadVars, serverVars, codeVars >>

RecommendAssessmentsRaw ==
    /\ rawState = "idle"
    /\ _retriever = "set"
    /\ \E kk \in Ks :
          LET filtered == FilterDocsRaw(retrieved_docs)
          IN  /\ rawK' = kk
              /\ rawFiltered' = filtered
              /\ rawResult' = RawUrls(filtered, kk)
              /\ rawState' = "returned"
    /\ UNCHANGED << config, _retriever, _llm, llmCalls, retrieved_docs, response,
                    recState, filtered_docs, indices, clean_indices, recommendations >>
    /\ UNCHANGED << loadVars, serverVars, codeVars >>

Next == RecommendAssessments \/ RecommendAssessmentsRaw

Spec == Init /\ [][Next]_vars

(***************************************************************************)
(* Properties of the pipeline                                              *)
(***************************************************************************)
\* C1: whatever the candidates and the response, the returned list has 5 to
\* 10 records when at least 5 filtered candidates exist, and exactly as many
\* records as there are filtered candidates when fewer than 5 exist.
C1_CountBound ==
    recState = "returned" =>
        LET n == Len(filtered_docs)
            m == Len(recommendations)
        IN  IF n >= 5 THEN 5 <= m /\ m <= 10 ELSE m = n

\* C1 witness: a response naming more than ten valid candidates is cut to ten.
C1_Witness ==
    /\ recState = "returned"
    /\ Len(filtered_docs) > 10
    /\ response.t = "list" /\ Len(response.v) > 10
    /\ Len(recommendations) = 10

\* C2: no url appears twice in one returned list.
C2_UniqueUrls ==
    recState = "returned" =>
        \A i, j \in 1..Len(recommendations) :
            i # j => recommendations[i].url # recommendations[j].url

\* C3: a response that is not JSON, or not an array, never makes the call
\* raise; the call returns the filtered candidates 1..min(5, n), in order.
C3_FallbackTopFive ==
    (recState # "idle" /\ response.t # "list") =>
        /\ recState = "returned"
        /\ Len(recommendations) = Min(5, Len(filtered_docs))
        /\ \A i \in 1..Len(recommendations) :
               recommendations[i] = BuildRecord(filtered_docs[i])
        /\ clean_indices = [i \in 1..Min(5, Len(filtered_docs)) |-> i]

\* C3 witness: a malformed response against more than five candidates.
C3_Witness ==
    /\ recState = "returned"
    /\ response = NotJson
    /\ Len(filtered_docs) > 5
    /\ Len(recommendations) = 5

\* The reading of C4, from the parsed list alone: the positions whose entry
\* is a first occurrence of a coercible index in range, ...
AcceptablePositions(idxs, n) ==
    {p \in 1..Len(idxs) :
        /\ IntCoerce(idxs[p]).ok
        /\ IntCoerce(idxs[p]).v \in 1..n
        /\ \A q \in 1..(p - 1) :
              ~(IntCoerce(idxs[q]).ok /\ IntCoerce(idxs[q]).v = IntCoerce(idxs[p]).v)}
\* ... the j-th smallest member of a set of numbers, ...
NthSmallest(S, j) == CHOOSE x \in S : Cardinality({y \in S : y < x}) = j - 1
\* ... the first ten of them, in the order given, ...
AcceptedByModel(idxs, n) ==
    LET P == AcceptablePositions(idxs, n)
    IN  [j \in 1..Min(10, Cardinality(P)) |-> IntCoerce(idxs[NthSmallest(P, j)]).v]
\* ... and, when fewer than five, the unseen indices in ascending order.
ExpectedIndices(idxs, n) ==
    LET acc == AcceptedByModel(idxs, n)
        unseen == (1..n) \ {acc[j] : j \in 1..Len(acc)}
        need == IF Len(acc) < 5 THEN Min(5 - Len(acc), Cardinality(unseen)) ELSE 0
    IN  acc \o [j \in 1..need |-> NthSmallest(unseen, j)]

\* C4: the resolved indices are the first occurrences of the coercible
\* entries in [1, n] in the order given, cut off at ten, followed (only when
\* fewer than five) by the unseen indices ascending up to five.
C4_ResolvedIndices ==
    recState = "returned" =>
        clean_indices = ExpectedIndices(indices, Len(filtered_docs))

\* C4 witness: [3, 3, 99, 1] against ten candidates resolves to [3, 1, 2, 4, 5].
C4_Witness ==
    /\ recState = "returned"
    /\ Len(filtered_docs) = 10
    /\ indices = << PyInt(3), PyInt(3), PyInt(99), PyInt(1) >>
    /\ clean_indices = << 3, 1, 2, 4, 5 >>

\* C5 (as claimed): every recommended candidate, of either function, is an
\* `individual` entry (or one without solution_type).
C5_OnlyIndividual ==
    /\ recState = "returned" =>
          \A j \in 1..Len(clean_indices) : IsIndividual(filtered_docs[clean_indices[j]])
    /\ rawState = "returned" =>
          \A j \in 1..Len(rawResult) : IsIndividual(rawFiltered[j])

HasIndividual(docs) == \E i \in 1..Len(docs) : IsIndividual(docs[i])

\* C5 (amended): when at least one retrieved candidate is individual (or has
\* no solution_type) every recommended candidate is; when none is, the
\* candidates recommended are those of the unfiltered retrieved list.
C5_OnlyIndividualIfAny ==
    /\ recState = "returned" =>
          IF HasIndividual(retrieved_docs)
          THEN \A j \in 1..Len(clean_indices) : IsIndividual(filtered_docs[clean_indices[j]])
          ELSE filtered_docs = retrieved_docs
    /\ rawState = "returned" =>
          IF HasIndividual(retrieved_docs)
          THEN \A j \in 1..Len(rawResult) : IsIndividual(rawFiltered[j])
          ELSE rawFiltered = retrieved_docs

\* C5 witness: a mixed retrieved list whose first candidate is a package.
C5_Witness ==
    /\ recState = "returned"
    /\ rawState = "returned"
    /\ Len(retrieved_docs) > 5
    /\ ~IsIndividual(retrieved_docs[1])
    /\ HasIndividual(retrieved_docs)
    /\ Len(recommendations) >= 5
    /\ Len(rawResult) > 0

\* The order-preserving sub-list of the individual (or untyped) entries, or
\* the list itself when there is none.
ExpectedFilter(docs) ==
    LET keep == {i \in 1..Len(docs) :
                    "solution_type" \notin DOMAIN docs[i] \/ docs[i].solution_type = Individual}
    IN  IF keep = {} THEN docs
        ELSE [j \in 1..Cardinality(keep) |-> docs[NthSmallest(keep, j)]]

\* C6: both functions filter to that sub-list; the filtered list is empty
\* only when the retrieved list is.
C6_Filter ==
    /\ recState # "idle" =>
          /\ filtered_docs = ExpectedFilter(retrieved_docs)
          /\ (filtered_docs = << >> => retrieved_docs = << >>)
    /\ rawState # "idle" =>
          /\ rawFiltered = ExpectedFilter(retrieved_docs)
          /\ (rawFiltered = << >> => retrieved_docs = << >>)
    /\ (recState # "idle" /\ rawState # "idle") => filtered_docs = rawFiltered

\* C6 witness: both functions ran on a list of packages only (the fall back)
C6_Witness ==
    /\ recState = "returned"
    /\ rawState = "returned"
    /\ Len(retrieved_docs) >= 2
    /\ ~HasIndividual(retrieved_docs)
    /\ rawFiltered = retrieved_docs
    /\ filtered_docs = retrieved_docs

\* C7: a step of recommend_assessments_raw neither asks the language model
\* nor builds its client.
C7_RawNeverCallsLlm ==
    [][rawState' # rawState => (llmCalls' = llmCalls /\ _llm' = _llm)]_vars

\* C7 witness: the raw retrieval returned urls and no client exists.
C7_Witness ==
    /\ rawState = "returned"
    /\ recState = "idle"
    /\ Len(rawResult) > 0
    /\ llmCalls = 0
    /\ _llm = "None"

RecordKeys ==
    {"name", "url", "description", "duration", "remote_support", "adaptive_support",
     "test_type"}
Codes == {"A", "B", "C", "K", "P", "S"}

\* C8: every record has exactly the seven keys (never solution_type), an
\* integer duration, "Yes"/"No" flags and a duplicate-free list of codes.
C8_RecordSchema ==
    recState = "returned" =>
        \A i \in 1..Len(recommendations) :
            LET r == recommendations[i]
            IN  /\ DOMAIN r = RecordKeys
                /\ IsInstanceInt(r.duration)
                /\ r.remote_support \in {"Yes", "No"}
                /\ r.adaptive_support \in {"Yes", "No"}
                /\ \A a \in 1..Len(r.test_type) : r.test_type[a] \in Codes
                /\ \A a, b \in 1..Len(r.test_type) :
                       a # b => r.test_type[a] # r.test_type[b]

\* C8 witness: a record built from a candidate that carries a solution_type,
\* a repeated test type and a free-text duration.
C8_Witness ==
    /\ recState = "returned"
    /\ \E i \in 1..Len(recommendations) :
          /\ "solution_type" \in DOMAIN filtered_docs[clean_indices[i]]
          /\ recommendations[i].test_type = << "K", "A" >>
          /\ recommendations[i].duration = PyInt(49)
          /\ recommendations[i].remote_support = "Yes"

(***************************************************************************)
(* The catalog load at import (main.py, module level)                      *)
(***************************************************************************)
MaxCatalog == 3
MaxLoads == 3

CatalogEntries == {Doc(u, s, 1) : u \in 1..2, s \in SolTypes}
RECURSIVE SeqsUpTo(_, _)
SeqsUpTo(S, n) ==
    IF n = 0 THEN {<< >>}
    ELSE LET shorter == SeqsUpTo(S, n - 1)
         IN  shorter \cup {Append(q, e) : q \in {x \in shorter : Len(x) = n - 1}, e \in S}
CatalogFiles == SeqsUpTo(CatalogEntries, MaxCatalog)

\* Mutant: the dirty flag is raised but the entry is left as it was.
EnsureSolutionType_skip(entry) == entry

\* lines 64-65: the default written into an entry without solution_type
EnsureSolutionType(entry) ==
    IF "solution_type" \notin DOMAIN entry
    THEN entry @@ [solution_type |-> Individual]
    ELSE entry

MissingSolutionType(entries) ==
    \E i \in 1..Len(entries) : "solution_type" \notin DOMAIN entries[i]

InitLoad ==
    /\ file \in CatalogFiles
    /\ file0 = file
    /\ data = << >>
    /\ _updated = FALSE
    /\ loads = 0
    /\ lastWrote = FALSE
    /\ config = AllSet
    /\ _retriever = "None"
    /\ _llm = "None"
    /\ llmCalls = 0
    /\ retrieved_docs = << >>
    /\ response = NotJson
    /\ PipelineIdle
    /\ CodesIdle
    /\ collection = [exists |-> FALSE]
    /\ bootstraps = << >>
    /\ req = [r \in Reqs |-> NoReq]

\* One run of the module-level load: read, default-fill, write back if dirty.
LoadCatalog ==
    /\ loads < MaxLoads
    /\ LET read == file
           filled == [i \in 1..Len(read) |-> EnsureSolutionType(read[i])]
           dirty == MissingSolutionType(read)
       IN  /\ data' = filled
           /\ _updated' = dirty
           /\ file' = IF dirty THEN filled ELSE file
           /\ lastWrote' = dirty
    /\ loads' = loads + 1
    /\ UNCHANGED << file0, clientVars, pipeVars, serverVars, codeVars >>

NextLoad == LoadCatalog

SpecLoad == InitLoad /\ [][NextLoad]_vars

\* C10: a second load of the catalog left by a first load writes nothing:
\* after one load every entry has a solution_type, the dirty flag of any
\* later load is false, and the values already there are kept.
C10_SecondLoadNoWrite ==
    /\ loads >= 1 =>
          /\ \A i \in 1..Len(file) : "solution_type" \in DOMAIN file[i]
          /\ Len(data) = Len(file0)
          /\ \A i \in 1..Len(file0) :
                "solution_type" \in DOMAIN file0[i] =>
                    data[i].solution_type = file0[i].solution_type
    /\ loads >= 2 => (~_updated /\ ~lastWrote /\ data = file)

\* C10 witness: the first load rewrote the file, the second did not.
C10_Witness ==
    /\ loads = 2
    /\ file # file0
    /\ MissingSolutionType(file0)
    /\ \E i \in 1..Len(file0) :
          "solution_type" \in DOMAIN file0[i] /\ file0[i].solution_type = Package
    /\ ~lastWrote

(***************************************************************************)
(* The server process: concurrent calls of recommend_assessments           *)
(* (app.py awaits it on one event loop; a coroutine runs without           *)
(* interruption from one await to the next)                                *)
(***************************************************************************)
ConfigNames == {"QDRANT_URL", "QDRANT_API_KEY", "GROQ_API_KEY"}
ServerDocLists == { << >>, PatternDocs(6, "distinct", "firstpkg") }
ServerResponses == { NotJson, PyList(<< PyInt(2), PyInt(2), PyInt(1) >>) }

\* What client.get_collection can answer: the collection, UnexpectedResponse
\* with status 404, UnexpectedResponse with another status (401, 403, 5xx),
\* or a failure that is no UnexpectedResponse (no connection, a timeout).
GetCollectionOutcomes ==
    (IF collection.exists THEN {"found"} ELSE {"notfound"}) \cup {"httperror", "neterror"}

\* What QdrantVectorStore.from_documents can do: index every document, fail
\* before it wrote anything, or fail after the collection was created and a
\* first batch was written.
FromDocumentsOutcomes == {"ok", "fail_nowrite", "fail_partial"}

\* get_embedding_model(): the cached model, or RuntimeError on ImportError
EmbeddingOutcomes == {"ok", "importerror"}

Proceed == [exc |-> "none", retriever |-> "set", collection |-> collection, boot |-> << >>]
Raise(kind) == [exc |-> kind, retriever |-> _retriever, collection |-> collection, boot |-> << >>]

\* get_retriever() called by request r: every way it can end, each with the
\* exception raised ("none" when it returns), the value _retriever is left
\* with, the collection and the bootstrap it ran, if any.
GetRetrieverOutcomes(r) ==
    IF _retriever # "None" THEN {Proceed}
    ELSE IF ~config.QDRANT_URL \/ ~config.QDRANT_API_KEY THEN {Raise("RuntimeError")}
    ELSE UNION {
        CASE chk = "found" ->
               {IF emb = "ok" THEN Proceed ELSE Raise("RuntimeError")
                   : emb \in EmbeddingOutcomes}
          [] chk = "neterror" -> {Raise("Exception")}
          [] OTHER ->  \* except UnexpectedResponse
               {Raise("RuntimeError")} \cup
               {CASE fd = "ok" ->
                       [exc |-> "none", retriever |-> "set",
                        collection |-> [exists |-> TRUE],
                        boot |-> << [by |-> r, check |-> chk, complete |-> TRUE] >>]
                  [] fd = "fail_partial" ->
                       [exc |-> "Exception", retriever |-> _retriever,
                        collection |-> [exists |-> TRUE],
                        boot |-> << [by |-> r, check |-> chk, complete |-> FALSE] >>]
                  [] fd = "fail_nowrite" -> Raise("Exception")
                   : fd \in FromDocumentsOutcomes}
        : chk \in GetCollectionOutcomes }

\* app.py, recommend: request.query or request.job_description
QueryText(body) == IF Truthy(body.query) THEN body.query ELSE body.job_description

\* app.py, recommend: not query_text or not query_text.strip()
Rejects(body) ==
    LET query_text == QueryText(body)
    IN  IF ~Truthy(query_text) THEN TRUE ELSE StrStrip(query_text.v) = << >>

\* The response app.py makes of an exception of recommend_assessments:
\* a RuntimeError keeps its own message, anything else gets the generic one.
HttpFor(kind) ==
    IF kind = "RuntimeError" THEN [status |-> 500, detail |-> "message"]
    ELSE [status |-> 500, detail |-> "Internal server error"]

\* Request record q once recommend_assessments raised an exception of `kind`.
Raised(q, kind) == [q EXCEPT !.pc = "raised", !.exc = kind, !.http = HttpFor(kind)]

\* The values a JobRequest field can hold: None, "", " ", "Java", " Java ".
FieldTexts ==
    { PyNone, PyStr(<< >>), PyStr(<< " " >>), PyStr(<< "J","a","v","a" >>),
      PyStr(<< " ","J","a","v","a"," " >>) }
AllBodies == [query : FieldTexts, job_description : FieldTexts]
ServerBodies ==
    { [query |-> PyNone, job_description |-> PyStr(<< "J","a","v","a" >>)],
      [query |-> PyNone, job_description |-> PyNone] }

InitServer ==
    /\ config \in [ConfigNames -> BOOLEAN]
    /\ _retriever = "None"
    /\ _llm = "None"
    /\ llmCalls = 0
    /\ collection \in {[exists |-> FALSE], [exists |-> TRUE]}
    /\ bootstraps = << >>
    /\ req \in [Reqs -> {[NoReq EXCEPT !.pc = "idle", !.body = b] : b \in ServerBodies}]
    /\ retrieved_docs \in ServerDocLists
    /\ response \in ServerResponses
    /\ PipelineIdle
    /\ CatalogLoaded
    /\ CodesIdle

\* POST /recommend with no usable text: 400, the pipeline is not called.
RejectRequest(r) ==
    /\ req[r].pc = "idle"
    /\ Rejects(req[r].body)
    /\ req' = [req EXCEPT ![r] =
                  [@ EXCEPT !.pc = "rejected",
                            !.http = [status |-> 400, detail |-> "must be provided"]]]
    /\ UNCHANGED << clientVars, collection, bootstraps, pipeVars, loadVars, codeVars >>

\* POST /recommend with text, and recommend_assessments up to its first
\* await: get_retriever(), then the search is sent.
CallGetRetriever(r) ==
    /\ req[r].pc = "idle"
    /\ ~Rejects(req[r].body)
    /\ \E o \in GetRetrieverOutcomes(r) :
          /\ _retriever' = o.retriever
          /\ collection' = o.collection
          /\ bootstraps' = bootstraps \o o.boot
          /\ req' = [req EXCEPT ![r] =
                        IF o.exc = "none" THEN [@ EXCEPT !.pc = "search"]
                        ELSE Raised(@, o.exc)]
    /\ UNCHANGED << config, _llm, llmCalls, pipeVars, loadVars, codeVars >>

\* The search answers: filter, build the prompt, get_llm(), send the prompt.
SearchReturns(r) ==
    /\ req[r].pc = "search"
    /\ IF GetLlmRaises
       THEN /\ req' = [req EXCEPT ![r] = Raised(@, "RuntimeError")]
            /\ UNCHANGED << _llm, llmCalls >>
       ELSE /\ req' = [req EXCEPT ![r] =
                          [@ EXCEPT !.pc = "llm", !.docs = FilterDocs(retrieved_docs)]]
            /\ _llm' = "set"
            /\ llmCalls' = llmCalls + 1
    /\ UNCHANGED << config, _retriever, collection, bootstraps, pipeVars, loadVars, codeVars >>

\* The search fails (network, quota, timeout): the exception propagates.
SearchFails(r) ==
    /\ req[r].pc = "search"
    /\ req' = [req EXCEPT ![r] = Raised(@, "Exception")]
    /\ UNCHANGED << clientVars, collection, bootstraps, pipeVars, loadVars, codeVars >>

\* The model answers: parse, normalise, fill, truncate, build the records.
LlmReturns(r) ==
    /\ req[r].pc = "llm"
    /\ LET docs == req[r].docs
           clean == ResolveIndices(ParseIndices(response, Len(docs)), Len(docs))
       IN  req' = [req EXCEPT ![r] =
                      [@ EXCEPT !.pc = "returned",
                                !.recs = BuildRecommendations(clean, docs),
                                !.http = [status |-> 200, detail |-> "recommended_assessments"]]]
    /\ UNCHANGED << clientVars, collection, bootstraps, pipeVars, loadVars, codeVars >>

\* The model call fails: the exception propagates.
LlmFails(r) ==
    /\ req[r].pc = "llm"
    /\ req' = [req EXCEPT ![r] = Raised(@, "Exception")]
    /\ UNCHANGED << clientVars, collection, bootstraps, pipeVars, loadVars, codeVars >>

NextServer ==
    \E r \in Reqs :
        \/ RejectRequest(r)
        \/ CallGetRetriever(r)
        \/ SearchReturns(r)
        \/ SearchFails(r)
        \/ LlmReturns(r)
        \/ LlmFails(r)

SpecServer == InitServer /\ [][NextServer]_vars

\* C9: within one process at most one collection bootstrap executes, however
\* the first requests interleave.
C9_AtMostOneBootstrap == Len(bootstraps) <= 1

\* One request at a time, with every body a client can send.
InitApi ==
    /\ config \in [ConfigNames -> BOOLEAN]
    /\ _retriever = "None"
    /\ _llm = "None"
    /\ llmCalls = 0
    /\ collection \in {[exists |-> FALSE], [exists |-> TRUE]}
    /\ bootstraps = << >>
    /\ \E b \in AllBodies :
          req = [r \in Reqs |-> IF r = 1 THEN [NoReq EXCEPT !.pc = "idle", !.body = b]
                                ELSE NoReq]
    /\ retrieved_docs \in ServerDocLists
    /\ response \in ServerResponses
    /\ PipelineIdle
    /\ CatalogLoaded
    /\ CodesIdle

SpecApi == InitApi /\ [][NextServer]_vars

Called(q) == q.pc \in {"search", "llm", "returned", "raised"}
Ended(q) == q.pc \in {"returned", "raised"}
ConfigMissing == \E name \in ConfigNames : ~config[name]

\* C11: with QDRANT_URL, QDRANT_API_KEY or GROQ_API_KEY missing, a call of
\* recommend_assessments ends in a configuration error reported with its own
\* message, never in a list and never in the generic failure.
C11_ConfigError ==
    \A r \in Reqs :
        (ConfigMissing /\ Ended(req[r])) =>
            /\ req[r].pc = "raised"
            /\ req[r].exc = "RuntimeError"
            /\ req[r].http = [status |-> 500, detail |-> "message"]

\* A field carries text when it is a string with a non-whitespace character.
HasText(x) == x.t = "str" /\ \E i \in 1..Len(x.v) : ~IsSpace(x.v[i])

\* C12: a request is rejected with 400, the pipeline not called, exactly
\* when neither query nor job_description carries non-whitespace text.
C12_RejectIffNoText ==
    \A r \in Reqs :
        req[r].pc \notin {"off", "idle"} =>
            /\ (req[r].pc = "rejected") <=>
                   (~HasText(req[r].body.query) /\ ~HasText(req[r].body.job_description))
            /\ req[r].pc = "rejected" => req[r].http.status = 400
            /\ Called(req[r]) <=> req[r].pc # "rejected"

\* C14: every bulk index build follows an existence check that found the
\* collection missing.
C14_BuildOnlyWhenAbsent ==
    \A i \in 1..Len(bootstraps) : bootstraps[i].check = "notfound"

(***************************************************************************)
(* map_test_types_to_codes on its own (main.py)                            *)
(***************************************************************************)
MaxTypes == 3

\* What a test_types list can hold.
TypeEntries ==
    { PyStr(<< "A","b","i","l","i","t","y" >>),
      PyStr(<< "K","n","o","w","l","e","d","g","e" >>),
      PyStr(<< " ","a","b","i","l","i","t","y" >>),
      PyStr(<< "P","E","R","S","O","N","A","L","I","T","Y" >>),
      PyStr(<< "K" >>),
      PyStr(<< "a" >>),
      PyStr(<< "x" >>),
      PyStr(<< "A","b","i","l","i","t","y"," ","&" >>),
      PyInt(5),
      PyNone }
TypeLists == UNION {[1..n -> TypeEntries] : n \in 0..MaxTypes}
TypeInputs == {PyNone} \cup {PyList(l) : l \in TypeLists}

InitCodes ==
    /\ mt_types \in TypeInputs
    /\ mt_codes = << >>
    /\ mt_done = FALSE
    /\ config = AllSet
    /\ _retriever = "None"
    /\ _llm = "None"
    /\ llmCalls = 0
    /\ retrieved_docs = << >>
    /\ response = NotJson
    /\ PipelineIdle
    /\ CatalogLoaded
    /\ collection = [exists |-> FALSE]
    /\ bootstraps = << >>
    /\ req = [r \in Reqs |-> NoReq]

MapTestTypes ==
    /\ ~mt_done
    /\ mt_codes' = map_test_types_to_codes(mt_types)
    /\ mt_done' = TRUE
    /\ UNCHANGED << mt_types, clientVars, pipeVars, loadVars, serverVars >>

NextCodes == MapTestTypes

SpecCodes == InitCodes /\ [][NextCodes]_vars

\* The categories and their codes (spec glossary).
CategoryName ==
    [ A |-> << "A","b","i","l","i","t","y" >>,
      B |-> << "B","e","h","a","v","i","o","r","a","l" >>,
      C |-> << "C","o","g","n","i","t","i","v","e" >>,
      K |-> << "K","n","o","w","l","e","d","g","e" >>,
      P |-> << "P","e","r","s","o","n","a","l","i","t","y" >>,
      S |-> << "S","i","t","u","a","t","i","o","n","a","l" >> ]

\* Entry e names category c: its text, surrounding whitespace and letter
\* case aside, is the category's name or its letter.
Names(e, c) ==
    LET text == StrLower(StrStrip(Str(e)))
    IN  text = StrLower(CategoryName[c]) \/ text = StrLower(<< c >>)

Named(e) == {c \in DOMAIN CategoryName : Names(e, c)}
CodeNamed(e) == CHOOSE c \in Named(e) : TRUE

\* The positions at which a category is named for the first time.
FirstNamings(l) ==
    {i \in 1..Len(l) :
        /\ Named(l[i]) # {}
        /\ \A j \in 1..(i - 1) : Named(l[j]) # Named(l[i])}

ExpectedCodes(l) ==
    LET F == FirstNamings(l)
    IN  [j \in 1..Cardinality(F) |-> CodeNamed(l[NthSmallest(F, j)])]

\* C13: map_test_types_to_codes returns the codes of the entries that name a
\* known category, in order of first appearance, without duplicates, every
\* other entry dropped; an empty or absent input gives the empty list.
C13_CodesOfNamedCategories ==
    mt_done =>
        mt_codes = IF mt_types.t = "list" THEN ExpectedCodes(mt_types.v) ELSE << >>

C13_Witness ==
    /\ mt_done
    /\ mt_types = PyList(<< PyStr(<< "A","b","i","l","i","t","y" >>),
                          PyStr(<< "K","n","o","w","l","e","d","g","e" >>),
                          PyStr(<< "A","b","i","l","i","t","y" >>) >>)
    /\ mt_codes = << "A", "K" >>

====
